---- MODULE Spec2Model ----
(***************************************************************************)
(* Model of carbonpre.py, the power-plant data merger.                     *)
(*                                                                         *)
(* Text is modelled as a sequence of one-character strings, so that the    *)
(* regular expressions, replacements and comparisons of the source are     *)
(* computed character by character.                                        *)
(*                                                                         *)
(* Specifications:                                                         *)
(*   SpecNorm   normalize_name applied to bounded inputs                   *)
(*   SpecMatch  find_best_match_index applied to bounded row labels        *)
(*   SpecDate   the date parser and the two date extractors                *)
(*   SpecCols   detect_generation_col applied to bounded column lists      *)
(*   SpecProgress  one press of the button, iteration by iteration         *)
(*   Spec       the page: uploads, fallback, selections, Generate           *)
(***************************************************************************)
EXTENDS Integers, Sequences, FiniteSets, TLC

VARIABLES
    n_in,        \* SpecNorm: the text handed to normalize_name
    n_alt,       \* SpecNorm: a text that differs from n_in in letter case only
    n_out,       \* SpecNorm: normalize_name(n_in), or Unset
    n_alt_out,   \* SpecNorm: normalize_name(n_alt), or Unset
    n_twice,     \* SpecNorm: normalize_name(normalize_name(n_in)), or Unset
    m_series,    \* SpecMatch: the row labels (a pandas Series, RangeIndex)
    m_target,    \* SpecMatch: the plant name looked for
    m_done,      \* SpecMatch: whether find_best_match_index has run
    m_result,    \* SpecMatch: what find_best_match_index returned
    d_text,      \* SpecDate: the text handed to parse_date_string_to_date
    d_form,      \* SpecDate: the form in which d_text writes a date, or "none"
    d_date,      \* SpecDate: the date <<y, m, d>> that d_text writes
    d_file,      \* SpecDate: the file handed to the get_date_from_... functions
    d_month,     \* SpecDate: the fallback month name
    d_year,      \* SpecDate: the fallback year
    d_parsed,    \* SpecDate: parse_date_string_to_date(d_text), or Unset
    d_gen,       \* SpecDate: get_date_from_generation_file(d_file, ..), or Unset
    d_coal,      \* SpecDate: get_date_from_coal_file(d_file, ..), or Unset
    generation_files,      \* Spec: the uploaded generation workbooks
    coal_files,            \* Spec: the uploaded coal workbooks
    month_name,            \* Spec: the fallback month
    year_val,              \* Spec: the fallback year
    combined_plants,       \* Spec: st.session_state["combined_plants"]
    selected_gen_plants,   \* Spec: st.session_state["selected_gen_plants"]
    selected_coal_plants,  \* Spec: st.session_state["selected_coal_plants"]
    run,                   \* Spec: "idle", "complete" or "error" (an uncaught exception);
                           \* SpecProgress: also "generation" and "coal", the loop running
    gen_result_df,         \* Spec: Table 1 as presented
    coal_result_df,        \* Spec: Table 2 as presented
    merged,                \* Spec: the merged frame
    exported,              \* Spec: the rows of the sheet Generation_with_Coal
    c_columns,     \* SpecCols: gen_df.columns, the stripped column names
    c_done,        \* SpecCols: whether detect_generation_col has run
    c_result,      \* SpecCols: the position of the column it returned, 0 for None
    position,      \* SpecProgress: the iterations of the running loop that are done
    step_count,    \* SpecProgress: step_count
    total_steps,   \* SpecProgress: total_steps
    progress_bar   \* SpecProgress: the value last given to progress_bar.progress

normVars == <<n_in, n_alt, n_out, n_alt_out, n_twice>>
matchVars == <<m_series, m_target, m_done, m_result>>
dateVars == <<d_text, d_form, d_date, d_file, d_month, d_year, d_parsed, d_gen, d_coal>>
inputVars == <<generation_files, coal_files, month_name, year_val, combined_plants,
               selected_gen_plants, selected_coal_plants>>
outputVars == <<run, gen_result_df, coal_result_df, merged, exported>>
appVars == <<inputVars, outputVars>>
colVars == <<c_columns, c_done, c_result>>
progVars == <<position, step_count, total_steps, progress_bar>>
vars == <<normVars, matchVars, dateVars, appVars, colVars, progVars>>

\* A result that has not been computed yet (no text holds this token).
Unset == <<"<unset>">>

\* A missing cell (pandas NaN): pd.isna is true of it and of nothing else.
NaN == <<"<NaN>">>

(***************************************************************************)
(* Characters                                                              *)
(***************************************************************************)
UpperSeq == <<"A","B","C","D","E","F","G","H","I","J","K","L","M",
              "N","O","P","Q","R","S","T","U","V","W","X","Y","Z">>
LowerSeq == <<"a","b","c","d","e","f","g","h","i","j","k","l","m",
              "n","o","p","q","r","s","t","u","v","w","x","y","z">>
DigitSeq == <<"0","1","2","3","4","5","6","7","8","9">>

Range(s) == {s[i] : i \in 1..Len(s)}

IsUpper(c) == c \in Range(UpperSeq)
IsLower(c) == c \in Range(LowerSeq)
IsAlpha(c) == IsUpper(c) \/ IsLower(c)
IsDigit(c) == c \in Range(DigitSeq)
\* \s of the re module, and the characters str.strip() removes
IsSpace(c) == c \in {" ", "\t", "\n"}

IndexIn(seq, c) == CHOOSE i \in 1..Len(seq) : seq[i] = c

\* str.lower() on one character
LowerChar(c) == IF IsUpper(c) THEN LowerSeq[IndexIn(UpperSeq, c)] ELSE c
\* str.upper() on one character
UpperChar(c) == IF IsLower(c) THEN UpperSeq[IndexIn(LowerSeq, c)] ELSE c

Lower(s) == [i \in 1..Len(s) |-> LowerChar(s[i])]
Upper(s) == [i \in 1..Len(s) |-> UpperChar(s[i])]

DigitVal(c) == IndexIn(DigitSeq, c) - 1

\* s[i..j] (1-based, inclusive); empty when j < i
Slice(s, i, j) == IF j < i THEN <<>> ELSE SubSeq(s, i, j)

\* whether pat occurs in s at position i
MatchesAt(s, pat, i) ==
    /\ i >= 1
    /\ i + Len(pat) - 1 <= Len(s)
    /\ \A k \in 1..Len(pat) : s[i + k - 1] = pat[k]

\* Python's  pat in s
Contains(s, pat) == \E i \in 1..(Len(s) + 1) : MatchesAt(s, pat, i)

RECURSIVE ReplaceFrom(_, _, _, _)
ReplaceFrom(s, old, new, i) ==
    IF i > Len(s) THEN <<>>
    ELSE IF MatchesAt(s, old, i)
         THEN new \o ReplaceFrom(s, old, new, i + Len(old))
         ELSE <<s[i]>> \o ReplaceFrom(s, old, new, i + 1)

\* str.replace(old, new) for a non-empty old: leftmost, non-overlapping
Replace(s, old, new) == ReplaceFrom(s, old, new, 1)

\* str.strip(): drop the characters of set cs from both ends
StripChars(s, cs) ==
    LET keep == {i \in 1..Len(s) : s[i] \notin cs}
    IN  IF keep = {} THEN <<>>
        ELSE LET lo == CHOOSE i \in keep : \A j \in keep : i <= j
                 hi == CHOOSE i \in keep : \A j \in keep : i >= j
             IN  SubSeq(s, lo, hi)

Strip(s) == StripChars(s, {" ", "\t", "\n"})

(***************************************************************************)
(* normalize_name                                                          *)
(***************************************************************************)
\* the end of the match of \(.*?\) that starts at i, or 0: the first ")" after
\* i, provided no newline lies between ("." does not match a newline)
ParenEnd(s, i) ==
    LET closes == {j \in (i + 1)..Len(s) : s[j] = ")"}
    IN  IF s[i] # "(" \/ closes = {} THEN 0
        ELSE LET j == CHOOSE x \in closes : \A y \in closes : x <= y
             IN  IF \E k \in (i + 1)..(j - 1) : s[k] = "\n" THEN 0 ELSE j

RECURSIVE RemoveParensFrom(_, _)
RemoveParensFrom(s, i) ==
    IF i > Len(s) THEN <<>>
    ELSE IF ParenEnd(s, i) # 0
         THEN <<" ">> \o RemoveParensFrom(s, ParenEnd(s, i) + 1)
         ELSE <<s[i]>> \o RemoveParensFrom(s, i + 1)

\* re.sub(r"\(.*?\)", " ", s)
RemoveParens(s) == RemoveParensFrom(s, 1)

\* re.sub(r"[^A-Za-z0-9\s]", " ", s)
RemovePunct(s) ==
    [i \in 1..Len(s) |->
        IF IsAlpha(s[i]) \/ IsDigit(s[i]) \/ IsSpace(s[i]) THEN s[i] ELSE " "]

RECURSIVE CollapseFrom(_, _)
CollapseFrom(s, i) ==
    IF i > Len(s) THEN <<>>
    ELSE IF IsSpace(s[i])
         THEN IF i > 1 /\ IsSpace(s[i - 1])
              THEN CollapseFrom(s, i + 1)
              ELSE <<" ">> \o CollapseFrom(s, i + 1)
         ELSE <<s[i]>> \o CollapseFrom(s, i + 1)

\* re.sub(r"\s+", " ", s)
CollapseSpaces(s) == CollapseFrom(s, 1)

\* the three literal abbreviation substitutions, in source order
Abbreviate(s) ==
    Replace(Replace(Replace(s,
        <<"s","t","p","s">>, <<"t","p","s">>),
        <<"s","t","a","t","i","o","n">>, <<"s","t","n">>),
        <<"p","o","w","e","r"," ","l","i","m","i","t","e","d">>, <<"p","o","w","e","r">>)

normalize_name(s) ==
    IF s = NaN THEN <<>>
    ELSE LET s1 == Replace(s, <<"&">>, <<" ","a","n","d"," ">>)
             s2 == RemoveParens(s1)
             s3 == Abbreviate(s2)
             s4 == RemovePunct(s3)
         IN  Lower(Strip(CollapseSpaces(s4)))

(***************************************************************************)
(* difflib.SequenceMatcher(None, a, b).ratio()                             *)
(* (no junk; the autojunk heuristic needs 200 or more characters)          *)
(***************************************************************************)
\* length of the common run of a from i and b from j, inside a[..ahi], b[..bhi]
RECURSIVE MatchLen(_, _, _, _, _, _)
MatchLen(a, b, i, j, ahi, bhi) ==
    IF i > ahi \/ j > bhi \/ a[i] # b[j] THEN 0
    ELSE 1 + MatchLen(a, b, i + 1, j + 1, ahi, bhi)

SetMax(S) == CHOOSE x \in S : \A y \in S : x >= y
SetMin(S) == CHOOSE x \in S : \A y \in S : x <= y

\* find_longest_match on a[alo..ahi], b[blo..bhi] (inclusive): <<i, j, k>>, the
\* longest matching block, the one starting earliest in a and, among those,
\* earliest in b; k = 0 when nothing matches
find_longest_match(a, b, alo, ahi, blo, bhi) ==
    LET len == [i \in alo..ahi, j \in blo..bhi |-> MatchLen(a, b, i, j, ahi, bhi)]
        best == SetMax({len[i, j] : i \in alo..ahi, j \in blo..bhi})
        bi == SetMin({i \in alo..ahi : \E j \in blo..bhi : len[i, j] = best})
        bj == SetMin({j \in blo..bhi : len[bi, j] = best})
    IN  <<bi, bj, best>>

\* the total size of get_matching_blocks() within a[alo..ahi], b[blo..bhi]:
\* the longest block, then the same to its left and to its right
RECURSIVE MatchingSize(_, _, _, _, _, _)
MatchingSize(a, b, alo, ahi, blo, bhi) ==
    IF alo > ahi \/ blo > bhi THEN 0
    ELSE LET m == find_longest_match(a, b, alo, ahi, blo, bhi)
         IN  IF m[3] = 0 THEN 0
             ELSE m[3]
                  + MatchingSize(a, b, alo, m[1] - 1, blo, m[2] - 1)
                  + MatchingSize(a, b, m[1] + m[3], ahi, m[2] + m[3], bhi)

\* ratio() as the fraction <<2 * matches, len(a) + len(b)>>; 1.0 for two empty
\* texts
ratio(a, b) ==
    IF Len(a) + Len(b) = 0 THEN <<1, 1>>
    ELSE <<2 * MatchingSize(a, b, 1, Len(a), 1, Len(b)), Len(a) + Len(b)>>

\* comparisons of two fractions with positive denominators
RatioGT(r, q) == r[1] * q[2] > q[1] * r[2]
RatioGE(r, q) == r[1] * q[2] >= q[1] * r[2]

(***************************************************************************)
(* find_best_match_index                                                   *)
(***************************************************************************)
\* "no match" (Python's None); a match is the 0-based index label of the row
NoMatch == -1

\* min_ratio = 0.55, as the fraction MinRatioNum / MinRatioDen
MinRatioNum == 55
MinRatioDen == 100
min_ratio == <<MinRatioNum, MinRatioDen>>

\* the list `candidates`: each row label normalized, a missing one as ""
Candidates(series) ==
    [i \in 1..Len(series) |->
        IF series[i] = NaN THEN <<>> ELSE normalize_name(series[i])]

\* series.index[i] for the i-th row (1-based here) of a RangeIndex
IndexLabel(i) == i - 1

\* a plausible slip: "in" where the exact loop has "=="
ExactTierContains(candidates, n_target) ==
    LET hits == {i \in 1..Len(candidates) :
                    candidates[i] # <<>> /\ Contains(candidates[i], n_target)}
    IN  IF hits = {} THEN NoMatch ELSE IndexLabel(SetMin(hits))

\* the "exact" loop: the first non-empty candidate equal to the target
ExactTier(candidates, n_target) ==
    LET hits == {i \in 1..Len(candidates) :
                    candidates[i] # <<>> /\ candidates[i] = n_target}
    IN  IF hits = {} THEN NoMatch ELSE IndexLabel(SetMin(hits))

\* a plausible slip: only one of the two containment tests
SubstringTierOneWay(candidates, n_target) ==
    LET hits == {i \in 1..Len(candidates) :
                    /\ candidates[i] # <<>>
                    /\ n_target # <<>> /\ Contains(candidates[i], n_target)}
    IN  IF hits = {} THEN NoMatch ELSE IndexLabel(SetMin(hits))

\* the "substring" loop: the first non-empty candidate that contains the
\* (non-empty) target or is contained in it
SubstringTier(candidates, n_target) ==
    LET hits == {i \in 1..Len(candidates) :
                    /\ candidates[i] # <<>>
                    /\ \/ n_target # <<>> /\ Contains(candidates[i], n_target)
                       \/ Contains(n_target, candidates[i])}
    IN  IF hits = {} THEN NoMatch ELSE IndexLabel(SetMin(hits))

\* the "fuzzy" loop from row i on, with the best so far: <<best_ratio, best_idx>>
RECURSIVE FuzzyScan(_, _, _, _)
FuzzyScan(candidates, n_target, i, best) ==
    IF i > Len(candidates) THEN best
    ELSE IF candidates[i] = <<>> THEN FuzzyScan(candidates, n_target, i + 1, best)
    ELSE LET r == ratio(n_target, candidates[i])
         IN  IF RatioGT(r, best[1])
             THEN FuzzyScan(candidates, n_target, i + 1, <<r, IndexLabel(i)>>)
             ELSE FuzzyScan(candidates, n_target, i + 1, best)

\* a plausible slip: ">" where the threshold test has ">="
FuzzyTierStrict(candidates, n_target, minr) ==
    LET best == FuzzyScan(candidates, n_target, 1, <<<<0, 1>>, NoMatch>>)
    IN  IF RatioGT(best[1], minr) THEN best[2] ELSE NoMatch

\* the fuzzy tier: the best row of the whole scan, if its ratio reaches minr
FuzzyTier(candidates, n_target, minr) ==
    LET best == FuzzyScan(candidates, n_target, 1, <<<<0, 1>>, NoMatch>>)
    IN  IF RatioGE(best[1], minr) THEN best[2] ELSE NoMatch

find_best_match_index(series, plant_name, minr) ==
    IF series = <<>> THEN NoMatch
    ELSE LET n_target == normalize_name(plant_name)
             candidates == Candidates(series)
             exact == ExactTier(candidates, n_target)
             sub == SubstringTier(candidates, n_target)
         IN  IF exact # NoMatch THEN exact
             ELSE IF sub # NoMatch THEN sub
             ELSE FuzzyTier(candidates, n_target, minr)

(***************************************************************************)
(* Dates.  A parse result is <<"date", y, m, d>>, <<"int", n>> or None.    *)
(***************************************************************************)
None == <<"none">>
DateOf(y, m, d) == <<"date", y, m, d>>
IntOf(n) == <<"int", n>>
IsDate(r) == r[1] = "date"
IsInt(r) == r[1] = "int"

IsLeap(y) == (y % 4 = 0 /\ y % 100 # 0) \/ y % 400 = 0

DaysInMonth(y, m) ==
    IF m = 2 THEN (IF IsLeap(y) THEN 29 ELSE 28)
    ELSE IF m \in {4, 6, 9, 11} THEN 30 ELSE 31

\* whether datetime.date(y, m, d) exists (MINYEAR = 1, MAXYEAR = 9999)
ValidDate(y, m, d) ==
    /\ y >= 1 /\ y <= 9999
    /\ m >= 1 /\ m <= 12
    /\ d >= 1 /\ d <= DaysInMonth(y, m)

\* the month names of the selectbox and of month_map, lower-cased
MonthNames == <<
    <<"j","a","n","u","a","r","y">>, <<"f","e","b","r","u","a","r","y">>,
    <<"m","a","r","c","h">>, <<"a","p","r","i","l">>, <<"m","a","y">>,
    <<"j","u","n","e">>, <<"j","u","l","y">>, <<"a","u","g","u","s","t">>,
    <<"s","e","p","t","e","m","b","e","r">>, <<"o","c","t","o","b","e","r">>,
    <<"n","o","v","e","m","b","e","r">>, <<"d","e","c","e","m","b","e","r">> >>

\* month_map.get(name.lower(), 1)
month_map_get(name) ==
    LET hits == {m \in 1..12 : MonthNames[m] = Lower(name)}
    IN  IF hits = {} THEN 1 ELSE CHOOSE m \in hits : TRUE

CharAt(s, i) == IF i >= 1 /\ i <= Len(s) THEN s[i] ELSE ""

RECURSIVE DigitRun(_, _)
\* the number of consecutive digits of s from position i
DigitRun(s, i) == IF IsDigit(CharAt(s, i)) THEN 1 + DigitRun(s, i + 1) ELSE 0

RECURSIVE AlphaRun(_, _)
AlphaRun(s, i) == IF IsAlpha(CharAt(s, i)) THEN 1 + AlphaRun(s, i + 1) ELSE 0

RECURSIVE SpaceRun(_, _)
SpaceRun(s, i) == IF IsSpace(CharAt(s, i)) THEN 1 + SpaceRun(s, i + 1) ELSE 0

RECURSIVE NumberOf(_)
\* int() of a sequence of digits
NumberOf(ds) ==
    IF ds = <<>> THEN 0
    ELSE 10 * NumberOf(SubSeq(ds, 1, Len(ds) - 1)) + DigitVal(ds[Len(ds)])

IsSep(c) == c \in {"/", "-"}

\* \d{1,2} followed by a character of class `after`: the digits taken, or 0
OneOrTwoDigitsThen(s, i, after(_)) ==
    IF DigitRun(s, i) >= 2 /\ after(CharAt(s, i + 2)) THEN 2
    ELSE IF DigitRun(s, i) >= 1 /\ after(CharAt(s, i + 1)) THEN 1
    ELSE 0

IsMin(a, b) == IF a < b THEN a ELSE b

\* Each PatternKAt(s, i) is the last position of the match of pattern k that
\* starts at position i, or 0 when there is none.

\* (\d{1,2}[/-]\d{1,2}[/-]\d{2,4})
Pattern1At(s, i) ==
    LET a == OneOrTwoDigitsThen(s, i, IsSep)
        p == i + a + 1
        b == OneOrTwoDigitsThen(s, p, IsSep)
        q == p + b + 1
        c == DigitRun(s, q)
    IN  IF a = 0 \/ b = 0 \/ c < 2 THEN 0 ELSE q + IsMin(c, 4) - 1

\* (\d{4}-\d{2}-\d{2})
Pattern2At(s, i) ==
    IF /\ DigitRun(s, i) >= 4 /\ CharAt(s, i + 4) = "-"
       /\ DigitRun(s, i + 5) >= 2 /\ CharAt(s, i + 7) = "-"
       /\ DigitRun(s, i + 8) >= 2
    THEN i + 9 ELSE 0

\* (\d{1,2}\s+[A-Za-z]{3,9}\s+\d{4})
Pattern3At(s, i) ==
    LET a == OneOrTwoDigitsThen(s, i, IsSpace)
        p == i + a + SpaceRun(s, i + a)
        l == AlphaRun(s, p)
        q == p + l + SpaceRun(s, p + l)
    IN  IF a = 0 \/ l < 3 \/ l > 9 \/ SpaceRun(s, p + l) = 0 \/ DigitRun(s, q) < 4
        THEN 0 ELSE q + 3

IsCommaOrSpace(c) == c = "," \/ IsSpace(c)

\* ([A-Za-z]{3,9}\s+\d{1,2},?\s+\d{4})
Pattern4At(s, i) ==
    LET l == AlphaRun(s, i)
        p == i + l + SpaceRun(s, i + l)
        a == OneOrTwoDigitsThen(s, p, IsCommaOrSpace)
        c == IF CharAt(s, p + a) = "," THEN 1 ELSE 0
        q == p + a + c + SpaceRun(s, p + a + c)
    IN  IF \/ l < 3 \/ l > 9 \/ SpaceRun(s, i + l) = 0 \/ a = 0
           \/ SpaceRun(s, p + a + c) = 0 \/ DigitRun(s, q) < 4
        THEN 0 ELSE q + 3

PatternAt(k, s, i) ==
    CASE k = 1 -> Pattern1At(s, i)
      [] k = 2 -> Pattern2At(s, i)
      [] k = 3 -> Pattern3At(s, i)
      [] k = 4 -> Pattern4At(s, i)

\* re.search(patterns[k], s).group(1): the leftmost match, or <<>> for no match
\* (a match is never empty)
PatternSearch(k, s) ==
    LET Leftmost(ends) ==
            LET starts == {i \in 1..Len(s) : ends[i] # 0}
            IN  IF starts = {} THEN <<>>
                ELSE SubSeq(s, SetMin(starts), ends[SetMin(starts)])
    IN  Leftmost([i \in 1..Len(s) |-> PatternAt(k, s, i)])

(***************************************************************************)
(* datetime.strptime.  A format is a sequence of tokens: the directives    *)
(* "%d" "%m" "%Y" "%y" "%b" "%B", " " (any run of whitespace) and literal  *)
(* characters.  Each directive takes what its regular expression of        *)
(* _strptime takes; in the formats used here %d and %m are followed by a   *)
(* literal or end the format, so the first alternative that fits is the    *)
(* only one that can lead to a match.                                      *)
(***************************************************************************)
\* %d: 3[0-1] | [1-2]\d | 0[1-9] | [1-9] | " "[1-9]   (characters taken, or 0)
TakeDay(s, i) ==
    LET c == CharAt(s, i)
        n == CharAt(s, i + 1)
    IN  IF c = "3" /\ n \in {"0", "1"} THEN 2
        ELSE IF c \in {"1", "2"} /\ IsDigit(n) THEN 2
        ELSE IF c = "0" /\ IsDigit(n) /\ n # "0" THEN 2
        ELSE IF IsDigit(c) /\ c # "0" THEN 1
        ELSE IF c = " " /\ IsDigit(n) /\ n # "0" THEN 2
        ELSE 0

\* %m: 1[0-2] | 0[1-9] | [1-9]
TakeMonth(s, i) ==
    LET c == CharAt(s, i)
        n == CharAt(s, i + 1)
    IN  IF c = "1" /\ n \in {"0", "1", "2"} THEN 2
        ELSE IF c = "0" /\ IsDigit(n) /\ n # "0" THEN 2
        ELSE IF IsDigit(c) /\ c # "0" THEN 1
        ELSE 0

\* %B (full = TRUE) or %b: the month whose name stands at i, ignoring case,
\* as <<month, characters taken>>, or <<0, 0>>
TakeMonthName(s, i, full) ==
    LET name(m) == IF full THEN MonthNames[m] ELSE SubSeq(MonthNames[m], 1, 3)
        hits == {m \in 1..12 :
                    /\ i + Len(name(m)) - 1 <= Len(s)
                    /\ Lower(SubSeq(s, i, i + Len(name(m)) - 1)) = name(m)}
    IN  IF hits = {} THEN <<0, 0>>
        ELSE LET m == CHOOSE x \in hits : \A y \in hits : Len(name(x)) >= Len(name(y))
             IN  <<m, Len(name(m))>>

DigitsValue(s, i, n) ==
    NumberOf(SelectSeq(SubSeq(s, i, i + n - 1), IsDigit))

NoFields == [ok |-> FALSE, y |-> 0, m |-> 0, d |-> 0]

RECURSIVE StrpMatch(_, _, _, _, _)
\* match s from position i against fmt from token k, with the fields found so
\* far; ok only if the whole of s is consumed ("unconverted data remains")
StrpMatch(s, i, fmt, k, acc) ==
    IF k > Len(fmt) THEN [acc EXCEPT !.ok = (i = Len(s) + 1)]
    ELSE LET t == fmt[k] IN
      CASE t = "%d" ->
             LET n == TakeDay(s, i)
             IN  IF n = 0 THEN NoFields
                 ELSE StrpMatch(s, i + n, fmt, k + 1,
                                [acc EXCEPT !.d = DigitsValue(s, i, n)])
        [] t = "%m" ->
             LET n == TakeMonth(s, i)
             IN  IF n = 0 THEN NoFields
                 ELSE StrpMatch(s, i + n, fmt, k + 1,
                                [acc EXCEPT !.m = DigitsValue(s, i, n)])
        [] t = "%Y" ->
             IF DigitRun(s, i) < 4 THEN NoFields
             ELSE StrpMatch(s, i + 4, fmt, k + 1,
                            [acc EXCEPT !.y = DigitsValue(s, i, 4)])
        [] t = "%y" ->
             IF DigitRun(s, i) < 2 THEN NoFields
             ELSE LET v == DigitsValue(s, i, 2)
                  IN  StrpMatch(s, i + 2, fmt, k + 1,
                          [acc EXCEPT !.y = IF v < 69 THEN 2000 + v ELSE 1900 + v])
        [] t \in {"%b", "%B"} ->
             LET r == TakeMonthName(s, i, t = "%B")
             IN  IF r[1] = 0 THEN NoFields
                 ELSE StrpMatch(s, i + r[2], fmt, k + 1, [acc EXCEPT !.m = r[1]])
        [] t = " " ->
             IF SpaceRun(s, i) = 0 THEN NoFields
             ELSE StrpMatch(s, i + SpaceRun(s, i), fmt, k + 1, acc)
        [] OTHER ->
             IF CharAt(s, i) # t THEN NoFields
             ELSE StrpMatch(s, i + 1, fmt, k + 1, acc)

\* datetime.strptime(candidate, fmt).date(), or None where it raises
strptime(candidate, fmt) ==
    LET Date(r) == IF r.ok /\ ValidDate(r.y, r.m, r.d) THEN DateOf(r.y, r.m, r.d) ELSE None
    IN  Date(StrpMatch(candidate, 1, fmt, 1, [ok |-> TRUE, y |-> 1900, m |-> 1, d |-> 1]))

\* the formats tried for each candidate, in source order (the last repeats
\* "%d %B %Y", tried once more after the loop)
DateFormats == <<
    <<"%d", "/", "%m", "/", "%Y">>,
    <<"%d", "-", "%m", "-", "%Y">>,
    <<"%d", "/", "%m", "/", "%y">>,
    <<"%d", "-", "%m", "-", "%y">>,
    <<"%Y", "-", "%m", "-", "%d">>,
    <<"%d", " ", "%b", " ", "%Y">>,
    <<"%d", " ", "%B", " ", "%Y">>,
    <<"%B", " ", "%d", " ", "%Y">>,
    <<"%d", " ", "%B", " ", "%Y">> >>

\* the first result of a sequence of attempts that is not None, else None
FirstResult(results) ==
    LET good == {k \in 1..Len(results) : results[k] # None}
    IN  IF good = {} THEN None ELSE results[SetMin(good)]

\* the first format that parses the candidate decides
TryFormats(candidate) ==
    FirstResult([f \in 1..Len(DateFormats) |-> strptime(candidate, DateFormats[f])])

\* re.search(r"DAY\s*(\d+)", s.upper()): the number as IntOf, or None
DaySearch(s) ==
    LET u == Upper(s)
        numAt(i) == i + 3 + SpaceRun(u, i + 3)
        starts == {i \in 1..Len(u) :
                      MatchesAt(u, <<"D", "A", "Y">>, i) /\ DigitRun(u, numAt(i)) > 0}
    IN  IF starts = {} THEN None
        ELSE LET i == SetMin(starts)
             IN  IntOf(NumberOf(SubSeq(u, numAt(i), numAt(i) + DigitRun(u, numAt(i)) - 1)))

\* the candidate of pattern k parsed, or None (no match, or no format fits)
PatternResult(k, s) ==
    LET Parsed(candidate) == IF candidate = <<>> THEN None ELSE TryFormats(candidate)
    IN  Parsed(PatternSearch(k, s))

\* the first value that is not None
OrElse(a, b) == IF a # None THEN a ELSE b

\* s.replace(".", "")
RemoveDots(s) == SelectSeq(s, LAMBDA c : c # ".")

parse_date_string_to_date(text) ==
    IF text = <<>> \/ text = NaN THEN None
    ELSE LET Search(s) ==
                 OrElse(FirstResult([k \in 1..4 |-> PatternResult(k, s)]), DaySearch(s))
         IN  Search(RemoveDots(StripChars(Strip(text), {"(", ")", " "})))

(***************************************************************************)
(* get_date_from_generation_file / get_date_from_coal_file                 *)
(* A file is [name, readable, grid]: the display name, whether pandas can   *)
(* read the workbook, and the rows of its first sheet, each a sequence of  *)
(* cells; a cell is a text (a number is the text str() gives it) or NaN.   *)
(***************************************************************************)
\* str(x) of a cell
StrOfCell(x) == IF x = NaN THEN <<"n", "a", "n">> ELSE x

RECURSIVE JoinWithSpace(_)
\* " ".join(texts)
JoinWithSpace(texts) ==
    IF texts = <<>> THEN <<>>
    ELSE IF Len(texts) = 1 THEN texts[1]
    ELSE texts[1] \o <<" ">> \o JoinWithSpace(Tail(texts))

\* os.path.splitext(os.path.basename(name))[0] of a name without directories
SplitExtRoot(name) ==
    LET dots == {i \in 2..Len(name) :
                    name[i] = "." /\ \E j \in 1..(i - 1) : name[j] # "."}
    IN  IF dots = {} THEN name ELSE SubSeq(name, 1, SetMax(dots) - 1)

\* \w of the re module
IsWord(c) == IsAlpha(c) \/ IsDigit(c) \/ c = "_"

\* re.search(r"\b(\d{1,2})\b", fname): the number, or -1 for no match.  A
\* match starts at a digit that follows a non-word character (or starts the
\* text) and is one or two digits that end at a non-word character (or at the
\* end of the text).
StandaloneNumber(fname) ==
    LET starts == {i \in 1..Len(fname) :
                      /\ ~IsWord(CharAt(fname, i - 1))
                      /\ DigitRun(fname, i) \in {1, 2}
                      /\ ~IsWord(CharAt(fname, i + DigitRun(fname, i)))}
    IN  IF starts = {} THEN -1
        ELSE LET i == SetMin(starts)
             IN  NumberOf(SubSeq(fname, i, i + DigitRun(fname, i) - 1))

\* column A of pd.read_excel(file, header=None, nrows=10)
TopColumnA(file) ==
    [i \in 1..IsMin(10, Len(file.grid)) |-> file.grid[i][1]]

\* candidate_cells: the privileged cell (row index `row`), then rows 0..9
CandidateCells(colA, row) ==
    (IF Len(colA) > row THEN <<colA[row + 1]>> ELSE <<>>)
        \o SubSeq(colA, 1, IsMin(10, Len(colA)))

\* parse_date_string_to_date of each text of a sequence
ParsedTexts(texts) ==
    [i \in 1..Len(texts) |-> parse_date_string_to_date(texts[i])]

\* the part after the candidate cells: the name without extension, of which
\* parsed is what parse_date_string_to_date makes
DateFromName(fname, parsed, fallback_month, fallback_year) ==
    LET FromDay(day) ==
            IF day # -1 /\ ValidDate(fallback_year, month_map_get(fallback_month), day)
            THEN DateOf(fallback_year, month_map_get(fallback_month), day)
            ELSE None
    IN  OrElse(parsed, OrElse(DaySearch(fname), FromDay(StandaloneNumber(fname))))

\* the body shared by the two functions, which differ in the privileged row.
\* The texts parsed are, in order: the candidate cells joined, each candidate
\* cell, the file name; a date from the first decides, else the first date or
\* day number from a cell, else the file name.
get_date_from_file(file, row, fallback_month, fallback_year) ==
    IF ~file.readable THEN None
    ELSE LET fname == SplitExtRoot(file.name)
             Decide(n, parsed) ==
                 IF IsDate(parsed[1]) THEN parsed[1]
                 ELSE OrElse(FirstResult(SubSeq(parsed, 2, n + 1)),
                             DateFromName(fname, parsed[n + 2], fallback_month, fallback_year))
             Search(cells) ==
                 Decide(Len(cells),
                        ParsedTexts(<<JoinWithSpace(SelectSeq(cells, LAMBDA x : x # NaN))>>
                                        \o [i \in 1..Len(cells) |-> StrOfCell(cells[i])]
                                        \o <<fname>>))
         IN  Search(CandidateCells(TopColumnA(file), row))

get_date_from_generation_file(file, fallback_month, fallback_year) ==
    get_date_from_file(file, 1, fallback_month, fallback_year)

get_date_from_coal_file(file, fallback_month, fallback_year) ==
    get_date_from_file(file, 2, fallback_month, fallback_year)

\* strftime("%d/%m/%Y")
TwoDigits(n) == <<DigitSeq[((n \div 10) % 10) + 1], DigitSeq[(n % 10) + 1]>>
FourDigits(n) == TwoDigits(n \div 100) \o TwoDigits(n % 100)
FormatDMY(y, m, d) == TwoDigits(d) \o <<"/">> \o TwoDigits(m) \o <<"/">> \o FourDigits(y)

RECURSIVE Decimal(_)
\* str(n) of a natural number
Decimal(n) ==
    IF n < 10 THEN <<DigitSeq[n + 1]>>
    ELSE Decimal(n \div 10) \o <<DigitSeq[(n % 10) + 1]>>

\* format_date_label: <<date label, date object>>; the label is NoLabel
\* (Python's None) when no date was found
NoLabel == <<"<None>">>
format_date_label(d, fallback_month, fallback_year) ==
    IF IsDate(d) THEN <<FormatDMY(d[2], d[3], d[4]), d>>
    ELSE IF IsInt(d)
         THEN IF ValidDate(fallback_year, month_map_get(fallback_month), d[2])
              THEN <<FormatDMY(fallback_year, month_map_get(fallback_month), d[2]),
                     DateOf(fallback_year, month_map_get(fallback_month), d[2])>>
              ELSE <<(<<"D", "A", "Y", " ">> \o Decimal(d[2])), None>>
    ELSE <<NoLabel, None>>

(***************************************************************************)
(* Reading a sheet as a table                                              *)
(***************************************************************************)
\* the column name pandas gives the k-th header cell (1-based here), after
\* [str(c).strip() for c in df.columns]
ColumnName(cell, k) ==
    IF cell = NaN THEN <<"U", "n", "n", "a", "m", "e", "d", ":", " ">> \o Decimal(k - 1) ELSE Strip(cell)

\* read_excel_auto(file, header=h) for h >= 0: [ok, columns, data]; ok is
\* FALSE where pandas raises (an unreadable workbook, a header row beyond the
\* rows of the sheet); a sheet without rows is read as an empty frame
ReadFailed == [ok |-> FALSE, columns |-> <<>>, data |-> <<>>]
read_excel_auto(file, h) ==
    IF ~file.readable THEN ReadFailed
    ELSE IF file.grid = <<>> THEN [ok |-> TRUE, columns |-> <<>>, data |-> <<>>]
    ELSE IF h >= Len(file.grid) THEN ReadFailed
    ELSE [ok |-> TRUE,
          columns |-> [k \in 1..Len(file.grid[h + 1]) |-> ColumnName(file.grid[h + 1][k], k)],
          data |-> SubSeq(file.grid, h + 2, Len(file.grid))]

\* try: read_excel_auto(file, header=h)  except: read_excel_auto(file, header=0)
ReadWithFallback(file, h) ==
    IF read_excel_auto(file, h).ok THEN read_excel_auto(file, h)
    ELSE read_excel_auto(file, 0)

Thermal == <<"T", "h", "e", "r", "m", "a", "l">>
Station == <<"S", "t", "a", "t", "i", "o", "n">>

\* "Thermal" in c or "Station" in c
IsPlantColumn(c) == Contains(c, Thermal) \/ Contains(c, Station)

detect_coal_header(file) ==
    LET hits == {hdr \in 0..9 :
                    /\ read_excel_auto(file, hdr).ok
                    /\ \E k \in 1..Len(read_excel_auto(file, hdr).columns) :
                          IsPlantColumn(read_excel_auto(file, hdr).columns[k])}
    IN  IF hits = {} THEN 0 ELSE SetMin(hits)

IsTodaysActual(cname) ==
    /\ Contains(cname, <<"T", "O", "D", "A", "Y">>) /\ Contains(cname, <<"A", "C", "T", "U", "A", "L">>)
    /\ ~Contains(cname, <<"A", "P", "R", "I", "L">>) /\ ~Contains(cname, <<"T", "I", "L", "L">>)

IsAnyActual(cname) ==
    \/ Contains(cname, <<"A", "C", "T", "U", "A", "L">>)
    \/ Contains(cname, <<"D", "A", "I", "L", "Y">>) /\ Contains(cname, <<"G", "E", "N">>)

\* one loop instead of two: the first column of either kind
detect_generation_col_one_loop(columns) ==
    LET either == {k \in 1..Len(columns) :
                      IsTodaysActual(Upper(columns[k])) \/ IsAnyActual(Upper(columns[k]))}
    IN  IF either # {} THEN SetMin(either) ELSE 0

\* the position (1-based) of the column returned, or 0 for None
detect_generation_col(columns) ==
    LET first == {k \in 1..Len(columns) : IsTodaysActual(Upper(columns[k]))}
        second == {k \in 1..Len(columns) : IsAnyActual(Upper(columns[k]))}
    IN  IF first # {} THEN SetMin(first)
        ELSE IF second # {} THEN SetMin(second)
        ELSE 0

IsCoalColumn(cname) ==
    Contains(cname, <<"C", "O", "N", "S", "U", "M">>) \/ Contains(cname, <<"C", "O", "A", "L">>)

\* the position (1-based) of the column returned, or 0 for None
detect_coal_col(columns) ==
    LET hits == {k \in 1..Len(columns) : IsCoalColumn(Upper(columns[k]))}
    IN  IF hits = {} THEN 0 ELSE SetMin(hits)

(***************************************************************************)
(* format_num: f"{float(val):.4f}", "" where float() raises.               *)
(* Modelled for a missing cell (float nan) and for texts; a text is a      *)
(* number when it is [sign] digits [. digits] with at most four decimals   *)
(* (the pools hold no other numeric syntax).                               *)
(***************************************************************************)
Empty == <<>>

IsPlainDecimal(t) ==
    LET body == IF CharAt(t, 1) \in {"+", "-"} THEN Tail(t) ELSE t
        ip == DigitRun(body, 1)
        fp == IF CharAt(body, ip + 1) = "." THEN DigitRun(body, ip + 2) ELSE 0
        dot == IF CharAt(body, ip + 1) = "." THEN 1 ELSE 0
    IN  /\ ip + fp > 0
        /\ fp <= 4
        /\ ip + dot + fp = Len(body)

RECURSIVE Zeros(_)
Zeros(n) == IF n <= 0 THEN <<>> ELSE <<"0">> \o Zeros(n - 1)

format_num(val) ==
    IF val = NaN THEN <<"n", "a", "n">>
    ELSE LET t == Strip(val) IN
      IF ~IsPlainDecimal(t) THEN Empty
      ELSE LET neg == CharAt(t, 1) = "-"
               body == IF CharAt(t, 1) \in {"+", "-"} THEN Tail(t) ELSE t
               ip == DigitRun(body, 1)
               fp == Len(body) - ip - (IF CharAt(body, ip + 1) = "." THEN 1 ELSE 0)
           IN  (IF neg THEN <<"-">> ELSE <<>>)
                  \o Decimal(NumberOf(SubSeq(body, 1, ip)))
                  \o <<".">>
                  \o SubSeq(body, ip + 2, ip + 1 + fp) \o Zeros(4 - fp)

(***************************************************************************)
(* plant_info: the registry (two of its entries)                           *)
(***************************************************************************)
BELA_TPS == <<"B", "E", "L", "A", " ", "T", "P", "S">>
OBRA_TPS == <<"O", "B", "R", "A", " ", "T", "P", "S">>
PANIPAT_TPS == <<"P", "A", "N", "I", "P", "A", "T", " ", "T", "P", "S">>

plant_info ==
    (BELA_TPS :> <<"Maharashtra", "WESTERN">>)
        @@ (OBRA_TPS :> <<"Uttar Pradesh", "NORTHERN">>)

\* a row label of the uploaded sheets that is no registry key
SheetOnlyPlant == <<"T", "o", "t", "a", "l">>

PlantInfoKeysAndSheetLabels == DOMAIN plant_info \cup {SheetOnlyPlant}

\* set(plant_info.keys())
PlantInfoKeys == DOMAIN plant_info

\* plant_info.get(plant, ("Unknown", "Unknown"))
plant_info_get(plant) ==
    IF plant \in DOMAIN plant_info THEN plant_info[plant] ELSE <<"Unknown", "Unknown">>

All == <<"A", "l", "l">>

(***************************************************************************)
(* Text order (code points) and sorting                                    *)
(***************************************************************************)
CharOrder == <<"\t", "\n", " ", "&", "'", "(", ")", "+", ",", "-", ".", "/">>
                 \o DigitSeq \o <<":">> \o UpperSeq \o <<"_">> \o LowerSeq

Ord(c) == IndexIn(CharOrder, c)

RECURSIVE TextLess(_, _)
\* a < b for two str
TextLess(a, b) ==
    IF b = <<>> THEN FALSE
    ELSE IF a = <<>> THEN TRUE
    ELSE IF a[1] = b[1] THEN TextLess(Tail(a), Tail(b))
    ELSE Ord(a[1]) < Ord(b[1])

DateLess(a, b) ==
    \/ a[2] < b[2]
    \/ a[2] = b[2] /\ a[3] < b[3]
    \/ a[2] = b[2] /\ a[3] = b[3] /\ a[4] < b[4]

RemoveAt(seq, i) == SubSeq(seq, 1, i - 1) \o SubSeq(seq, i + 1, Len(seq))

\* sorted(files, key=lambda x: x.name)
RECURSIVE SortedByName(_)
SortedByName(files) ==
    IF files = {} THEN <<>>
    ELSE LET f == CHOOSE x \in files : \A y \in files : ~TextLess(y.name, x.name)
         IN  <<f>> \o SortedByName(files \ {f})

\* a set of plant names as a list (the order of a selection does not reach
\* the tables, which are sorted by plant within a date)
RECURSIVE SortedTexts(_)
SortedTexts(S) ==
    IF S = {} THEN <<>>
    ELSE LET t == CHOOSE x \in S : \A y \in S : ~TextLess(y, x)
         IN  <<t>> \o SortedTexts(S \ {t})

(***************************************************************************)
(* One iteration of the generation loop and of the coal loop               *)
(***************************************************************************)
\* df.iloc[:, k].astype(str) of the data rows (k is 1-based here)
ColumnAsStr(df, k) == [i \in 1..Len(df.data) |-> StrOfCell(df.data[i][k])]

\* format_num(df.loc[match_idx, col]) for a match and a column, else ""
MetricAt(df, match_idx, col) ==
    IF match_idx = NoMatch \/ col = 0 THEN Empty
    ELSE format_num(df.data[match_idx + 1][col])

\* date_label and date_obj of a file
DateLabelOf(raw_date, file, month, year) ==
    LET lab == format_date_label(raw_date, month, year)
    IN  IF lab[1] = NoLabel THEN <<SplitExtRoot(file.name), lab[2]>> ELSE lab

\* a row of gen_data / coal_data; ok is FALSE where the iteration raises: the
\* read of the except branch (lines 628, 668) is in no try, and neither is
\* gen_df.iloc[:, 0] of a frame without columns
DataRow(label, plant, val) ==
    [ok |-> TRUE, Date_Label |-> label[1], Date_dt |-> label[2],
     State |-> plant_info_get(plant)[1], Plant |-> plant,
     Region |-> plant_info_get(plant)[2], Val |-> val]
Raised == [ok |-> FALSE]

gen_record(plant, gen_file, month, year) ==
    LET label == DateLabelOf(get_date_from_generation_file(gen_file, month, year),
                             gen_file, month, year)
        gen_df == ReadWithFallback(gen_file, 3)
    IN  IF ~gen_df.ok \/ gen_df.columns = <<>> THEN Raised
        ELSE LET match_idx == find_best_match_index(ColumnAsStr(gen_df, 1), plant, min_ratio)
             IN  DataRow(label, plant,
                         MetricAt(gen_df, match_idx, detect_generation_col(gen_df.columns)))

coal_record(plant, coal_file, month, year) ==
    LET label == DateLabelOf(get_date_from_coal_file(coal_file, month, year),
                             coal_file, month, year)
        coal_df == ReadWithFallback(coal_file, detect_coal_header(coal_file))
    IN  IF ~coal_df.ok THEN Raised
        ELSE IF coal_df.columns = <<>> THEN DataRow(label, plant, Empty)
        ELSE LET plant_cols == {k \in 1..Len(coal_df.columns) : IsPlantColumn(coal_df.columns[k])}
                 col == IF plant_cols # {} THEN SetMin(plant_cols) ELSE 1
                 match_idx == find_best_match_index(ColumnAsStr(coal_df, col), plant, min_ratio)
             IN  DataRow(label, plant,
                         MetricAt(coal_df, match_idx, detect_coal_col(coal_df.columns)))

(***************************************************************************)
(* The tables                                                              *)
(***************************************************************************)
\* the sort keys in the other order: by=["Thermal Plant", "Date_dt"]
RowLessPlantFirst(a, b) ==
    \/ TextLess(a.Plant, b.Plant)
    \/ /\ a.Plant = b.Plant
       /\ \/ a.Date_dt # None /\ b.Date_dt = None
          \/ a.Date_dt # None /\ b.Date_dt # None /\ DateLess(a.Date_dt, b.Date_dt)

\* sort_values(by=["Date_dt", "Thermal Plant"], na_position="last")
RowLess(a, b) ==
    \/ a.Date_dt # None /\ b.Date_dt = None
    \/ a.Date_dt # None /\ b.Date_dt # None /\ DateLess(a.Date_dt, b.Date_dt)
    \/ /\ a.Date_dt = b.Date_dt \/ (a.Date_dt # None /\ b.Date_dt # None
                                    /\ ~DateLess(a.Date_dt, b.Date_dt)
                                    /\ ~DateLess(b.Date_dt, a.Date_dt))
       /\ TextLess(a.Plant, b.Plant)

RECURSIVE SortValues(_)
\* the rows in the order of RowLess, rows that compare equal keeping their
\* order (the sort is stable)
SortValues(rows) ==
    IF rows = <<>> THEN <<>>
    ELSE LET i == SetMin({k \in 1..Len(rows) :
                             \A j \in 1..Len(rows) : ~RowLess(rows[j], rows[k])})
         IN  <<rows[i]>> \o SortValues(RemoveAt(rows, i))

\* the "Date" column: strftime("%d/%m/%Y") of the date, else the label
WithDate(r) ==
    [Date |-> IF r.Date_dt # None THEN FormatDMY(r.Date_dt[2], r.Date_dt[3], r.Date_dt[4])
              ELSE r.Date_Label,
     State |-> r.State, Plant |-> r.Plant, Region |-> r.Region, Val |-> r.Val]

\* the rows with "Thermal Plant" in allowed_plants
RegistryFilter(rows) == SelectSeq(rows, LAMBDA r : r.Plant \in PlantInfoKeys)

\* gen_result_df / coal_result_df as presented: sorted, dated, filtered
ResultTable(data) ==
    LET Dated(sorted) == [i \in 1..Len(sorted) |-> WithDate(sorted[i])]
    IN  RegistryFilter(Dated(SortValues(data)))

MergeKeyDateOnly(r) == <<r.Date>>

\* on=["Date", "Thermal Plant"]
MergeKey(r) == <<r.Date, r.Plant>>

MergedRow(g, coal) ==
    [Date |-> g.Date, State |-> g.State, Plant |-> g.Plant, Region |-> g.Region,
     Gen |-> g.Val, Coal |-> coal]

RECURSIVE Flatten(_)
Flatten(seqs) == IF seqs = <<>> THEN <<>> ELSE seqs[1] \o Flatten(Tail(seqs))

\* pd.merge(gen, coal[[Date, Thermal Plant, coal]], how="left"): each left row,
\* in order, once per right row of the same key, in the right order; once
\* with a missing value (NaN) when no right row has the key
LeftMerge(gen, coal) ==
    Flatten([i \in 1..Len(gen) |->
        LET hits == SelectSeq(coal, LAMBDA c : MergeKey(c) = MergeKey(gen[i]))
        IN  IF hits = <<>> THEN <<MergedRow(gen[i], NaN)>>
            ELSE [j \in 1..Len(hits) |-> MergedRow(gen[i], hits[j].Val)]])

\* merged, for a gen_result_df that may be empty
Merged(gen, coal) == IF gen = <<>> THEN <<>> ELSE LeftMerge(gen, coal)

\* merged.to_excel(...): a missing value is written as na_rep, ""
ToExcel(rows) ==
    [i \in 1..Len(rows) |->
        [rows[i] EXCEPT !.Coal = IF rows[i].Coal = NaN THEN Empty ELSE rows[i].Coal]]

(***************************************************************************)
(* Bounds and input pools                                                  *)
(***************************************************************************)
\* SpecNorm: every text up to MaxNormLen characters over NormAlphabet, and the
\* longer texts of NormPool
MaxNormLen == 4

NormAlphabet == {"s", "t", "p", "S", " ", "(", ")", "&"}

NormPool == {
    <<"S","T","P","S">>,
    <<"B","A","R","H"," ","S","T","P","S">>,
    <<"B","a","r","h"," ","s","t","p","s">>,
    <<"P","a","n","i","p","a","t"," ","T","P","S">>,
    <<"P","A","N","I","P","A","T"," ","T","P","S">>,
    <<"M","e","t","t","u","r"," ","T","P","S"," ","-"," ","I","I">>,
    <<"M","e","t","t","u","r"," ","T","P","S"," ","I","I">>,
    <<"S","t","a","t","i","o","n">>,
    <<"s","t","a","t","i","o","n">>,
    <<"p","o","w","e","r"," "," ","l","i","m","i","t","e","d">>,
    <<"P","o","w","e","r"," ","L","i","m","i","t","e","d">>,
    NaN }

SeqsUpTo(S, n) == UNION {[1..k -> S] : k \in 0..n}

NormInputs == SeqsUpTo(NormAlphabet, MaxNormLen) \cup NormPool

RECURSIVE AllCaseVariants(_)
AllCaseVariants(s) ==
    IF s = <<>> THEN {<<>>}
    ELSE {<<c>> \o t : c \in {LowerChar(s[1]), UpperChar(s[1])},
                       t \in AllCaseVariants(Tail(s))}

\* texts that differ from s only in the letter case of their characters: all
\* of them for a short text, the all-lower and all-upper ones for a long one
CaseVariants(s) ==
    IF s = NaN THEN {NaN}
    ELSE IF Len(s) <= MaxNormLen THEN AllCaseVariants(s)
    ELSE {s, Lower(s), Upper(s)}

\* SpecMatch: series of up to MaxRows row labels drawn from MatchLabels, and a
\* target among three registry keys
MaxRows == 2

MatchTargets == {BELA_TPS, OBRA_TPS, PANIPAT_TPS}

\* "Panipat Thermal Power Stn TPS": ratio 22/40 = 0.55 against PANIPAT TPS
LabelAtThreshold ==
    <<"P", "a", "n", "i", "p", "a", "t", " ", "T", "h", "e", "r", "m", "a", "l", " ",
      "P", "o", "w", "e", "r", " ", "S", "t", "n", " ", "T", "P", "S">>
\* "Panipat Thermal Power Stns TPS": ratio 22/41 against PANIPAT TPS
LabelBelowThreshold ==
    <<"P", "a", "n", "i", "p", "a", "t", " ", "T", "h", "e", "r", "m", "a", "l", " ",
      "P", "o", "w", "e", "r", " ", "S", "t", "n", "s", " ", "T", "P", "S">>

MatchLabels == {
    <<"B", "e", "l", "a", " ", "T", "P", "S">>,
    <<"B", "e", "l", "a">>,
    <<"B", "e", "l", "a", " ", "T", "P", "S", " ", "E", "x", "t">>,
    <<"B", "e", "l", "l", "a", " ", "T", "P", "S">>,
    <<"B", "i", "n", "a", " ", "T", "P", "S">>,
    <<"O", "b", "r", "a", " ", "T", "P", "S">>,
    <<"T", "o", "t", "a", "l">>,
    <<"-", "-">>,
    NaN,
    LabelAtThreshold,
    LabelBelowThreshold }

\* SpecCols: lists of up to MaxCols different column names (pandas renames a
\* repeated header): no keyword; the daily column in two spellings; a
\* cumulative and a monthly column; "Daily Gen"; "Daily" without "Gen"
MaxCols == 3

ColumnNames == {
    <<"S", "t", "a", "t", "i", "o", "n">>,
    <<"T", "o", "d", "a", "y", "'", "s", " ", "A", "c", "t", "u", "a", "l">>,
    <<"t", "o", "d", "a", "y", " ", "a", "c", "t", "u", "a", "l", " ", "(", "M", "U", ")">>,
    <<"A", "c", "t", "u", "a", "l", " ", "T", "i", "l", "l", " ", "T", "o", "d", "a", "y">>,
    <<"A", "p", "r", "i", "l", " ", "T", "o", "d", "a", "y", " ", "A", "c", "t", "u", "a", "l">>,
    <<"D", "a", "i", "l", "y", " ", "G", "e", "n">>,
    <<"D", "a", "i", "l", "y", " ", "T", "a", "r", "g", "e", "t">> }

ColumnLists ==
    {cols \in SeqsUpTo(ColumnNames, MaxCols) :
        \A i \in 1..Len(cols) : \A j \in 1..Len(cols) : cols[i] = cols[j] => i = j}

\* SpecDate: texts that write one valid date in one of DateForms, bare or
\* after "Date: "; and files made of a display name and a column A
DateDays == {1, 5, 24, 30, 31}
DateMonths == {2, 6, 12}
DateYears == {2000, 2023, 2024}

ValidDates ==
    {ymd \in DateYears \X DateMonths \X DateDays : ValidDate(ymd[1], ymd[2], ymd[3])}

\* the four forms that section 4.2 lists ...
ListedForms == {"DD/MM/YYYY", "DD-MM-YYYY", "YYYY-MM-DD", "DD Month YYYY", "Month DD, YYYY"}
\* ... and two more that the format list parses
DateForms == ListedForms \cup {"Month DD YYYY", "D Mon YYYY"}

\* "June" for 6
MonthTitle(m) == <<UpperChar(MonthNames[m][1])>> \o Tail(MonthNames[m])

RenderDate(form, y, m, d) ==
    CASE form = "DD/MM/YYYY" -> FormatDMY(y, m, d)
      [] form = "DD-MM-YYYY" ->
            TwoDigits(d) \o <<"-">> \o TwoDigits(m) \o <<"-">> \o FourDigits(y)
      [] form = "YYYY-MM-DD" ->
            FourDigits(y) \o <<"-">> \o TwoDigits(m) \o <<"-">> \o TwoDigits(d)
      [] form = "DD Month YYYY" ->
            TwoDigits(d) \o <<" ">> \o MonthTitle(m) \o <<" ">> \o FourDigits(y)
      [] form = "Month DD, YYYY" ->
            MonthTitle(m) \o <<" ">> \o TwoDigits(d) \o <<",", " ">> \o FourDigits(y)
      [] form = "Month DD YYYY" ->
            MonthTitle(m) \o <<" ">> \o TwoDigits(d) \o <<" ">> \o FourDigits(y)
      [] form = "D Mon YYYY" ->
            Decimal(d) \o <<" ">> \o SubSeq(MonthTitle(m), 1, 3) \o <<" ">> \o FourDigits(y)

DatePrefixes == {<<>>, <<"D", "a", "t", "e", ":", " ">>}

June == <<"J", "u", "n", "e">>
February == <<"F", "e", "b", "r", "u", "a", "r", "y">>
Fallbacks == {<<June, 2024>>, <<February, 2023>>}

DateFileNames == {
    <<"G", "e", "n", "_", "0", "7", ".", "x", "l", "s", "x">>,
    <<"G", "e", "n", "-", "0", "7", ".", "x", "l", "s", "x">>,
    <<"G", "e", "n", " ", "7", ".", "x", "l", "s", "x">>,
    <<"G", "e", "n", "0", "7", ".", "x", "l", "s", "x">>,
    <<"G", "e", "n", " ", "3", "1", ".", "x", "l", "s", "x">>,
    <<"r", "e", "p", "o", "r", "t", ".", "x", "l", "s", "x">>,
    <<"D", "A", "Y", " ", "5", ".", "x", "l", "s">>,
    <<"0", "5", "-", "0", "6", "-", "2", "0", "2", "4", ".", "x", "l", "s", "x">>,
    <<"D", "A", "Y", " ", "5", " ", "0", "5", "-", "0", "6", "-", "2", "0", "2", "4", ".", "x", "l", "s", "x">> }

\* columns A: an empty sheet; titles only; a "DAY 14" cell; a dated cell in
\* row index 1; an ISO date in row index 2
DateColumns == {
    <<>>,
    <<<<"D", "a", "i", "l", "y", " ", "R", "e", "p", "o", "r", "t">>, NaN, <<"T", "o", "t", "a", "l">>>>,
    <<<<"D", "a", "i", "l", "y", " ", "R", "e", "p", "o", "r", "t">>, NaN, <<"D", "A", "Y", " ", "1", "4">>>>,
    <<<<"D", "a", "i", "l", "y", " ", "R", "e", "p", "o", "r", "t">>, <<"D", "a", "t", "e", ":", " ", "0", "5", "/", "0", "6", "/", "2", "0", "2", "4">>>>,
    <<<<"D", "a", "i", "l", "y", " ", "R", "e", "p", "o", "r", "t">>, NaN, <<"2", "0", "2", "4", "-", "0", "6", "-", "0", "5">>>> }

\* a sheet of one column
OneColumn(col) == [i \in 1..Len(col) |-> <<col[i]>>]

DateFiles ==
    [name : DateFileNames, readable : BOOLEAN, grid : {OneColumn(c) : c \in DateColumns}]

NoFile == [name |-> <<>>, readable |-> TRUE, grid |-> <<>>]

\* the uploaded workbooks: at most MaxFiles of each kind at a time
MaxFiles == 2

\* a generation sheet with a dated cell in A2 and its header in row index 3
GenDated ==
    [name |-> <<"g", "e", "n", "_", "a", ".", "x", "l", "s", "x">>,
     readable |-> TRUE,
     grid |-> <<<<<<"D", "a", "i", "l", "y", " ", "G", "e", "n", "e", "r", "a", "t", "i", "o", "n", " ", "R", "e", "p", "o", "r", "t">>, NaN>>,
          <<<<"D", "a", "t", "e", ":", " ", "0", "5", "/", "0", "6", "/", "2", "0", "2", "4">>, NaN>>,
          <<NaN, NaN>>,
          <<<<"S", "t", "a", "t", "i", "o", "n">>, <<"T", "o", "d", "a", "y", "'", "s", " ", "A", "c", "t", "u", "a", "l">>>>,
          <<<<"B", "e", "l", "a", " ", "T", "P", "S">>, <<"1", "2", ".", "5">>>>,
          <<<<"O", "b", "r", "a", " ", "T", "P", "S">>, <<"7">>>>,
          <<<<"T", "o", "t", "a", "l">>, <<"1", "9", ".", "5">>>>>>]

\* a short sheet (header=3 raises, header=0 is read) dated by its name
GenNamed ==
    [name |-> <<"G", "e", "n", " ", "5", ".", "x", "l", "s", "x">>,
     readable |-> TRUE,
     grid |-> <<<<<<"S", "t", "a", "t", "i", "o", "n">>, <<"A", "c", "t", "u", "a", "l">>>>,
          <<<<"B", "E", "L", "A", " ", "T", "P", "S">>, <<"8">>>>,
          <<<<"O", "B", "R", "A", " ", "T", "P", "S">>, NaN>>>>]

\* a sheet with a day number in a cell (a day that February lacks, so that
\* the date stays unresolved under that fallback), a text where a number is
\* expected
GenDayCell ==
    [name |-> <<"g", "e", "n", "_", "c", ".", "x", "l", "s", "x">>,
     readable |-> TRUE,
     grid |-> <<<<<<"D", "A", "Y", " ", "3", "0">>, NaN>>,
          <<NaN, NaN>>,
          <<NaN, NaN>>,
          <<<<"P", "l", "a", "n", "t">>, <<"D", "a", "i", "l", "y", " ", "G", "e", "n">>>>,
          <<<<"O", "b", "r", "a", " ", "T", "P", "S">>, <<"-", "-">>>>,
          <<<<"B", "e", "l", "a", " ", "T", "P", "S">>, <<"9", ".", "7", "5">>>>>>]

\* a workbook pandas cannot open
GenUnreadable ==
    [name |-> <<"g", "e", "n", "_", "b", "a", "d", ".", "x", "l", "s", "x">>,
     readable |-> FALSE,
     grid |-> <<>>]

\* a coal sheet with a dated cell in A3 and a Thermal column in row index 3
CoalDated ==
    [name |-> <<"c", "o", "a", "l", "_", "a", ".", "x", "l", "s", "x">>,
     readable |-> TRUE,
     grid |-> <<<<<<"C", "o", "a", "l", " ", "R", "e", "p", "o", "r", "t">>, NaN>>,
          <<NaN, NaN>>,
          <<<<"0", "5", "-", "0", "6", "-", "2", "0", "2", "4">>, NaN>>,
          <<<<"N", "a", "m", "e", " ", "o", "f", " ", "T", "h", "e", "r", "m", "a", "l", " ", "P", "o", "w", "e", "r", " ", "S", "t", "a", "t", "i", "o", "n">>, <<"C", "o", "a", "l", " ", "C", "o", "n", "s", "u", "m", "p", "t", "i", "o", "n">>>>,
          <<<<"B", "E", "L", "A", " ", "T", "P", "S">>, <<"3", ".", "2", "5">>>>,
          <<<<"O", "b", "r", "a", " ", "T", "P", "S">>, <<"-", "-">>>>,
          <<<<"T", "o", "t", "a", "l">>, <<"3", ".", "2", "5">>>>>>]

\* a coal sheet dated by its name: the same day as CoalDated under June 2024
CoalNamed ==
    [name |-> <<"C", "o", "a", "l", " ", "5", ".", "x", "l", "s", "x">>,
     readable |-> TRUE,
     grid |-> <<<<<<"S", "t", "a", "t", "i", "o", "n">>, <<"C", "o", "a", "l">>>>,
          <<<<"B", "e", "l", "a", " ", "T", "P", "S">>, <<"4">>>>,
          <<<<"P", "a", "n", "i", "p", "a", "t", " ", "T", "P", "S">>, <<"1", ".", "5">>>>>>]

\* a coal sheet without a plant column, the same day number and missing
\* values
CoalDayCell ==
    [name |-> <<"c", "o", "a", "l", "_", "c", ".", "x", "l", "s", "x">>,
     readable |-> TRUE,
     grid |-> <<<<<<"P", "l", "a", "n", "t">>, <<"C", "o", "a", "l", " ", "U", "s", "e", "d">>>>,
          <<<<"D", "A", "Y", " ", "3", "0">>, NaN>>,
          <<<<"O", "b", "r", "a", " ", "T", "P", "S">>, NaN>>,
          <<<<"B", "e", "l", "a", " ", "T", "P", "S">>, <<"2">>>>>>]

\* a workbook pandas cannot open
CoalUnreadable ==
    [name |-> <<"c", "o", "a", "l", "_", "b", "a", "d", ".", "x", "l", "s", "x">>,
     readable |-> FALSE,
     grid |-> <<>>]

GenFilePool == {GenDated, GenNamed, GenDayCell, GenUnreadable}
CoalFilePool == {CoalDated, CoalNamed, CoalDayCell, CoalUnreadable}

\* a function as an explicit table: TLC evaluates it once, argument by
\* argument, instead of on every application
Table(f) == f @@ <<>>

\* the iterations of the two loops over the pools
GenRecordOf ==
    Table([p \in PlantInfoKeys, f \in GenFilePool, fb \in Fallbacks |->
              gen_record(p, f, fb[1], fb[2])])
CoalRecordOf ==
    Table([p \in PlantInfoKeys, f \in CoalFilePool, fb \in Fallbacks |->
              coal_record(p, f, fb[1], fb[2])])

(***************************************************************************)
(* Specifications                                                          *)
(***************************************************************************)
\* the variables of a specification that is not the one being run
NormIdle ==
    /\ n_in = <<>> /\ n_alt = <<>>
    /\ n_out = Unset /\ n_alt_out = Unset /\ n_twice = Unset

MatchIdle ==
    m_series = <<>> /\ m_target = <<>> /\ m_done = FALSE /\ m_result = NoMatch

DateIdle ==
    /\ d_text = <<>> /\ d_form = "none" /\ d_date = <<0, 0, 0>>
    /\ d_file = NoFile /\ d_month = June /\ d_year = 0
    /\ d_parsed = Unset /\ d_gen = Unset /\ d_coal = Unset

AppIdle ==
    /\ generation_files = {} /\ coal_files = {}
    /\ month_name = June /\ year_val = 0
    /\ combined_plants = <<>>
    /\ selected_gen_plants = {} /\ selected_coal_plants = {}
    /\ run = "idle"
    /\ gen_result_df = <<>> /\ coal_result_df = <<>> /\ merged = <<>> /\ exported = <<>>

ColsIdle == c_columns = <<>> /\ c_done = FALSE /\ c_result = 0

ProgIdle == position = 0 /\ step_count = 0 /\ total_steps = 1 /\ progress_bar = 0

InitNorm ==
    /\ n_in \in NormInputs
    /\ n_alt \in CaseVariants(n_in)
    /\ n_out = Unset
    /\ n_alt_out = Unset
    /\ n_twice = Unset
    /\ MatchIdle
    /\ DateIdle
    /\ AppIdle
    /\ ColsIdle
    /\ ProgIdle

NormalizeStep ==
    /\ n_out = Unset
    /\ n_out' = normalize_name(n_in)
    /\ n_alt_out' = normalize_name(n_alt)
    /\ n_twice' = normalize_name(normalize_name(n_in))
    /\ UNCHANGED <<n_in, n_alt, matchVars, dateVars, appVars, colVars, progVars>>

NextNorm == NormalizeStep

SpecNorm == InitNorm /\ [][NextNorm]_vars

InitMatch ==
    /\ m_series \in SeqsUpTo(MatchLabels, MaxRows)
    /\ m_target \in MatchTargets
    /\ m_done = FALSE
    /\ m_result = NoMatch
    /\ NormIdle
    /\ DateIdle
    /\ AppIdle
    /\ ColsIdle
    /\ ProgIdle

MatchStep ==
    /\ ~m_done
    /\ m_done' = TRUE
    /\ m_result' = find_best_match_index(m_series, m_target, min_ratio)
    /\ UNCHANGED <<m_series, m_target, normVars, dateVars, appVars, colVars, progVars>>

NextMatch == MatchStep

SpecMatch == InitMatch /\ [][NextMatch]_vars

InitCols ==
    /\ c_columns \in ColumnLists
    /\ c_done = FALSE
    /\ c_result = 0
    /\ NormIdle
    /\ MatchIdle
    /\ DateIdle
    /\ AppIdle
    /\ ProgIdle

DetectStep ==
    /\ ~c_done
    /\ c_done' = TRUE
    /\ c_result' = detect_generation_col(c_columns)
    /\ UNCHANGED <<c_columns, normVars, matchVars, dateVars, appVars, progVars>>

NextCols == DetectStep

SpecCols == InitCols /\ [][NextCols]_vars

\* either a text that writes a date, or a file with a fallback month and year
InitDate ==
    /\ \/ /\ d_form \in DateForms
          /\ d_date \in ValidDates
          /\ \E prefix \in DatePrefixes :
                d_text = prefix \o RenderDate(d_form, d_date[1], d_date[2], d_date[3])
          /\ d_file = NoFile
          /\ d_month = June
          /\ d_year = 2024
       \/ /\ d_form = "none"
          /\ d_date = <<0, 0, 0>>
          /\ d_text = <<>>
          /\ d_file \in DateFiles
          /\ \E fb \in Fallbacks : d_month = fb[1] /\ d_year = fb[2]
    /\ d_parsed = Unset
    /\ d_gen = Unset
    /\ d_coal = Unset
    /\ NormIdle
    /\ MatchIdle
    /\ AppIdle
    /\ ColsIdle
    /\ ProgIdle

ParseText ==
    /\ d_parsed = Unset
    /\ d_parsed' = parse_date_string_to_date(d_text)
    /\ UNCHANGED <<d_text, d_form, d_date, d_file, d_month, d_year, d_gen, d_coal>>
    /\ UNCHANGED <<normVars, matchVars, appVars, colVars, progVars>>

ExtractDate ==
    /\ d_gen = Unset
    /\ d_gen' = get_date_from_generation_file(d_file, d_month, d_year)
    /\ d_coal' = get_date_from_coal_file(d_file, d_month, d_year)
    /\ UNCHANGED <<d_text, d_form, d_date, d_file, d_month, d_year, d_parsed>>
    /\ UNCHANGED <<normVars, matchVars, appVars, colVars, progVars>>

NextDate == ParseText \/ ExtractDate

SpecDate == InitDate /\ [][NextDate]_vars

(***************************************************************************)
(* Spec: the page.  Every interaction reruns the script; the tables are    *)
(* on the page only in the run in which the button was pressed.  The scan  *)
(* of the uploads for plant names (plants_gen, plants_coal) reaches no     *)
(* variable that is read later and is left out.                            *)
(***************************************************************************)
\* sorted(list(plant_info_keys))
CombinedPlants == SortedTexts(PlantInfoKeys)

\* menu = ["All"] + combined_plants
Menu == {All} \cup Range(combined_plants)

NoTables ==
    /\ gen_result_df' = <<>>
    /\ coal_result_df' = <<>>
    /\ merged' = <<>>
    /\ exported' = <<>>

Init ==
    /\ generation_files = {}
    /\ coal_files = {}
    /\ \E fb \in Fallbacks : month_name = fb[1] /\ year_val = fb[2]
    /\ combined_plants = CombinedPlants
    /\ selected_gen_plants = {All}
    /\ selected_coal_plants = {All}
    /\ run = "idle"
    /\ gen_result_df = <<>> /\ coal_result_df = <<>> /\ merged = <<>> /\ exported = <<>>
    /\ NormIdle
    /\ MatchIdle
    /\ DateIdle
    /\ ColsIdle
    /\ ProgIdle

\* the uploads change: the upload key differs and combined_plants is rebuilt
Rescan ==
    /\ combined_plants' = CombinedPlants
    /\ run' = "idle"
    /\ NoTables
    /\ UNCHANGED <<month_name, year_val, selected_gen_plants, selected_coal_plants>>
    /\ UNCHANGED <<normVars, matchVars, dateVars, colVars, progVars>>

UploadGeneration ==
    /\ \E f \in GenFilePool :
          /\ generation_files' = IF f \in generation_files THEN generation_files \ {f}
                                 ELSE generation_files \cup {f}
          /\ Cardinality(generation_files') <= MaxFiles
    /\ UNCHANGED coal_files
    /\ Rescan

UploadCoal ==
    /\ \E f \in CoalFilePool :
          /\ coal_files' = IF f \in coal_files THEN coal_files \ {f}
                           ELSE coal_files \cup {f}
          /\ Cardinality(coal_files') <= MaxFiles
    /\ UNCHANGED generation_files
    /\ Rescan

SetFallback ==
    /\ \E fb \in Fallbacks :
          /\ <<month_name, year_val>> # fb
          /\ month_name' = fb[1]
          /\ year_val' = fb[2]
    /\ run' = "idle"
    /\ NoTables
    /\ UNCHANGED <<generation_files, coal_files, combined_plants,
                   selected_gen_plants, selected_coal_plants>>
    /\ UNCHANGED <<normVars, matchVars, dateVars, colVars, progVars>>

\* _on_change_gen / _on_change_coal on the selection the widget stored
OnChange(sel) == IF All \in sel /\ sel # Menu THEN Menu ELSE sel

\* the selection after one option of the menu is picked or removed
Toggle(sel, opt) == IF opt \in sel THEN sel \ {opt} ELSE sel \cup {opt}

SelectGen ==
    /\ \E opt \in Menu : selected_gen_plants' = OnChange(Toggle(selected_gen_plants, opt))
    /\ run' = "idle"
    /\ NoTables
    /\ UNCHANGED <<generation_files, coal_files, month_name, year_val, combined_plants,
                   selected_coal_plants>>
    /\ UNCHANGED <<normVars, matchVars, dateVars, colVars, progVars>>

SelectCoal ==
    /\ \E opt \in Menu : selected_coal_plants' = OnChange(Toggle(selected_coal_plants, opt))
    /\ run' = "idle"
    /\ NoTables
    /\ UNCHANGED <<generation_files, coal_files, month_name, year_val, combined_plants,
                   selected_gen_plants>>
    /\ UNCHANGED <<normVars, matchVars, dateVars, colVars, progVars>>

\* the whole menu, sentinel included, taken for the plants
InterpretAllAsMenu(sel) == IF All \in sel THEN <<All>> \o combined_plants ELSE SortedTexts(sel)

\* interpret "All"
InterpretAll(sel) == IF All \in sel THEN combined_plants ELSE SortedTexts(sel)

\* gen_data / coal_data: plant by plant, file by file
LoopRows(plants, files, recordOf) ==
    Flatten([i \in 1..Len(plants) |->
                [j \in 1..Len(files) |-> recordOf[plants[i], files[j], <<month_name, year_val>>]]])

gen_data == LoopRows(InterpretAll(selected_gen_plants), SortedByName(generation_files), GenRecordOf)
coal_data == LoopRows(InterpretAll(selected_coal_plants), SortedByName(coal_files), CoalRecordOf)

\* some iteration raised an exception, which nothing catches
Raises(rows) == \E i \in 1..Len(rows) : ~rows[i].ok

\* the merged frame and the sheet written from it
Export(frame) ==
    /\ merged' = frame
    /\ exported' = ToExcel(frame)

\* the two tables as presented, and the export
Present(gen_table, coal_table) ==
    /\ gen_result_df' = gen_table
    /\ coal_result_df' = coal_table
    /\ Export(Merged(gen_table, coal_table))

\* the run from the two loops on
RunLoops(gen_rows, coal_rows) ==
    IF Raises(gen_rows) \/ Raises(coal_rows)
    THEN /\ run' = "error"
         /\ NoTables
    ELSE /\ run' = "complete"
         /\ Present(ResultTable(gen_rows), ResultTable(coal_rows))

\* if st.button("Generate Final Dataset"): ... to the download button
Generate ==
    /\ RunLoops(gen_data, coal_data)
    /\ UNCHANGED inputVars
    /\ UNCHANGED <<normVars, matchVars, dateVars, colVars, progVars>>

Next ==
    \/ UploadGeneration
    \/ UploadCoal
    \/ SetFallback
    \/ SelectGen
    \/ SelectCoal
    \/ Generate

Spec == Init /\ [][Next]_vars

(***************************************************************************)
(* SpecProgress: one press of the button on any upload and selection the   *)
(* page can hold, followed from iteration to iteration: what the progress  *)
(* bar shows between the iterations of the two loops.                      *)
(***************************************************************************)
Larger(a, b) == IF a >= b THEN a ELSE b

\* a total that counts the generation stream only
TotalStepsGenerationOnly(n_gen_plants, n_gen_files, n_coal_plants, n_coal_files) ==
    Larger(1, n_gen_plants * Larger(1, n_gen_files))

\* total_steps = max(1, len(plants) * max(1, len(files)) + the same for coal)
TotalSteps(n_gen_plants, n_gen_files, n_coal_plants, n_coal_files) ==
    Larger(1, n_gen_plants * Larger(1, n_gen_files) + n_coal_plants * Larger(1, n_coal_files))

\* int(step_count / total_steps * 100).  The quotient and the product are
\* floats; for every total below 50 the truncated result is the integer
\* quotient of step_count * 100 by total_steps (the first difference is at
\* 29 of 50, which gives 57), and the totals of the model stay below 50.
Percent(step, total) == (step * 100) \div total

\* what a multiselect can hold: the initial ["All"], every option (after
\* "All" was picked), or plants only
Selections == {{All}, {All} \cup PlantInfoKeys} \cup SUBSET PlantInfoKeys

\* the iterations of each loop: plants times files
GenIterations == Len(InterpretAll(selected_gen_plants)) * Cardinality(generation_files)
CoalIterations == Len(InterpretAll(selected_coal_plants)) * Cardinality(coal_files)

InitProgress ==
    /\ generation_files \in {F \in SUBSET GenFilePool : Cardinality(F) <= MaxFiles}
    /\ coal_files \in {F \in SUBSET CoalFilePool : Cardinality(F) <= MaxFiles}
    /\ month_name = June
    /\ year_val = 2024
    /\ combined_plants = CombinedPlants
    /\ selected_gen_plants \in Selections
    /\ selected_coal_plants \in Selections
    /\ run = "idle"
    /\ gen_result_df = <<>> /\ coal_result_df = <<>> /\ merged = <<>> /\ exported = <<>>
    /\ ProgIdle
    /\ NormIdle
    /\ MatchIdle
    /\ DateIdle
    /\ ColsIdle

\* the button is pressed: the total is computed, the bar is set to 0
Start ==
    /\ run = "idle"
    /\ run' = "generation"
    /\ total_steps' = TotalSteps(Len(InterpretAll(selected_gen_plants)),
                                 Cardinality(generation_files),
                                 Len(InterpretAll(selected_coal_plants)),
                                 Cardinality(coal_files))
    /\ progress_bar' = 0
    /\ step_count' = 0
    /\ position' = 0
    /\ UNCHANGED <<inputVars, gen_result_df, coal_result_df, merged, exported>>
    /\ UNCHANGED <<normVars, matchVars, dateVars, colVars>>

\* one iteration of the loop `phase`: the counter and the bar, then the
\* record, or the exception that ends the run
Iteration(phase, rows) ==
    /\ run = phase
    /\ position < Len(rows)
    /\ step_count' = step_count + 1
    /\ progress_bar' = IsMin(Percent(step_count + 1, total_steps), 100)
    /\ IF rows[position + 1].ok
       THEN position' = position + 1 /\ run' = run
       ELSE position' = position /\ run' = "error"
    /\ UNCHANGED <<total_steps, inputVars, gen_result_df, coal_result_df, merged, exported>>
    /\ UNCHANGED <<normVars, matchVars, dateVars, colVars>>

GenIteration == Iteration("generation", gen_data)

\* the generation loop is through: coal_data = []
StartCoalLoop ==
    /\ run = "generation"
    /\ position = GenIterations
    /\ run' = "coal"
    /\ position' = 0
    /\ UNCHANGED <<step_count, total_steps, progress_bar>>
    /\ UNCHANGED <<inputVars, gen_result_df, coal_result_df, merged, exported>>
    /\ UNCHANGED <<normVars, matchVars, dateVars, colVars>>

CoalIteration == Iteration("coal", coal_data)

\* finish progress, then the tables and the download
Finish ==
    /\ run = "coal"
    /\ position = CoalIterations
    /\ progress_bar' = 100
    /\ run' = "complete"
    /\ Present(ResultTable(gen_data), ResultTable(coal_data))
    /\ UNCHANGED <<position, step_count, total_steps, inputVars>>
    /\ UNCHANGED <<normVars, matchVars, dateVars, colVars>>

NextProgress ==
    \/ Start
    \/ GenIteration
    \/ StartCoalLoop
    \/ CoalIteration
    \/ Finish

SpecProgress == InitProgress /\ [][NextProgress]_vars

(***************************************************************************)
(* Claims                                                                  *)
(***************************************************************************)
\* the "Thermal Plant" values of a table
PlantsOf(rows) == {rows[i].Plant : i \in 1..Len(rows)}

\* C1: after a run of the button, every row of the presented generation
\* table, of the presented coal table and of the merged export names a plant
\* that is a key of the registry plant_info.
C1_RegistryFilter ==
    run = "complete" =>
        /\ PlantsOf(gen_result_df) \subseteq DOMAIN plant_info
        /\ PlantsOf(coal_result_df) \subseteq DOMAIN plant_info
        /\ PlantsOf(merged) \subseteq DOMAIN plant_info
        /\ PlantsOf(exported) \subseteq DOMAIN plant_info

\* C1 witness: a run over a generation sheet and a coal sheet that both hold
\* a row label outside the registry ("Total") completed with rows in all the
\* tables.
C1_Witness ==
    /\ run = "complete"
    /\ GenDated \in generation_files
    /\ CoalDated \in coal_files
    /\ gen_result_df # <<>>
    /\ coal_result_df # <<>>
    /\ exported # <<>>

\* the coal values the coal table holds for the (date, plant) key of row r
CoalValuesFor(r) ==
    {coal_result_df[j].Val :
        j \in {k \in 1..Len(coal_result_df) :
                  /\ coal_result_df[k].Date = r.Date
                  /\ coal_result_df[k].Plant = r.Plant}}

C3_OneRowPerGenerationRow ==
    run = "complete" => Len(merged) = Len(gen_result_df)

\* C12: no file failure aborts the run: whatever the uploaded workbooks, a
\* press of the button ends with "Processing complete" and the tables, never
\* with an exception that leaves the loops.
C12_NoAbort == run # "error"

\* a numeric string with exactly four decimal places
IsFourDecimals(v) ==
    LET body == IF CharAt(v, 1) = "-" THEN Tail(v) ELSE v
        ip == DigitRun(body, 1)
    IN  /\ ip > 0
        /\ CharAt(body, ip + 1) = "."
        /\ DigitRun(body, ip + 2) = 4
        /\ Len(body) = ip + 5

MetricShape(v) == v = <<>> \/ IsFourDecimals(v)

\* the cell at (matched row, metric column) of a readable sheet for a plant,
\* or Unset when the plant is unmatched or no metric column is found
GenCellOf ==
    Table([p \in PlantInfoKeys, f \in {x \in GenFilePool : x.readable} |->
        LET Cell(df) ==
                LET At(idx, col) == IF idx = NoMatch \/ col = 0 THEN Unset ELSE df.data[idx + 1][col]
                IN  At(find_best_match_index(ColumnAsStr(df, 1), p, min_ratio),
                       detect_generation_col(df.columns))
        IN  Cell(ReadWithFallback(f, 3))])

CoalCellOf ==
    Table([p \in PlantInfoKeys, f \in {x \in CoalFilePool : x.readable} |->
        LET Cell(df) ==
                LET plant_cols == {k \in 1..Len(df.columns) : IsPlantColumn(df.columns[k])}
                    At(idx, col) == IF idx = NoMatch \/ col = 0 THEN Unset ELSE df.data[idx + 1][col]
                IN  At(find_best_match_index(
                           ColumnAsStr(df, IF plant_cols # {} THEN SetMin(plant_cols) ELSE 1),
                           p, min_ratio),
                       detect_coal_col(df.columns))
        IN  Cell(ReadWithFallback(f, detect_coal_header(f)))])

\* the cell holds a number: not missing, and a text that writes a decimal
IsNumberCell(cell) == cell # Unset /\ cell # NaN /\ IsPlainDecimal(Strip(cell))

\* C13: the metric of every record of a completed run is the empty string or
\* a numeric string with exactly four decimal places, in the two presented
\* tables and in the export; and it is the empty string whenever the plant
\* is unmatched, no metric column is found, or the cell at (matched row,
\* metric column) is empty, text or otherwise not a number.
C13_MetricShape ==
    run = "complete" =>
        /\ \A i \in 1..Len(gen_result_df) : MetricShape(gen_result_df[i].Val)
        /\ \A i \in 1..Len(coal_result_df) : MetricShape(coal_result_df[i].Val)
        /\ \A i \in 1..Len(exported) :
              MetricShape(exported[i].Gen) /\ MetricShape(exported[i].Coal)
        /\ \A p \in Range(InterpretAll(selected_gen_plants)) : \A f \in generation_files :
              ~IsNumberCell(GenCellOf[p, f])
                  => GenRecordOf[p, f, <<month_name, year_val>>].Val = <<>>
        /\ \A p \in Range(InterpretAll(selected_coal_plants)) : \A f \in coal_files :
              ~IsNumberCell(CoalCellOf[p, f])
                  => CoalRecordOf[p, f, <<month_name, year_val>>].Val = <<>>

\* the date a "Date" text of the form dd/mm/yyyy writes, or None: a row whose
\* date was not resolved carries a label that has no such form ("DAY 30", or a
\* file name, which holds no "/")
ResolvedDate(r) ==
    IF /\ Len(r.Date) = 10
       /\ r.Date[3] = "/" /\ r.Date[6] = "/"
       /\ \A k \in {1, 2, 4, 5, 7, 8, 9, 10} : IsDigit(r.Date[k])
    THEN DateOf(NumberOf(SubSeq(r.Date, 7, 10)), NumberOf(SubSeq(r.Date, 4, 5)),
                NumberOf(SubSeq(r.Date, 1, 2)))
    ELSE None

\* rows in ascending order of resolved date, unresolved last, and in
\* ascending plant-name order within one resolved date
InOutputOrder(rows) ==
    \A i \in 1..(Len(rows) - 1) :
        LET a == ResolvedDate(rows[i])
            b == ResolvedDate(rows[i + 1])
        IN  /\ a = None => b = None
            /\ (a # None /\ b # None) => ~DateLess(b, a)
            /\ (a # None /\ a = b) => ~TextLess(rows[i + 1].Plant, rows[i].Plant)

\* C14: the presented generation table, the presented coal table and the
\* merged table are in ascending order of resolved date, rows without a
\* resolved date last, and rows of one resolved date in ascending plant-name
\* order.
C14_OutputOrdering ==
    run = "complete" =>
        /\ InOutputOrder(gen_result_df)
        /\ InOutputOrder(coal_result_df)
        /\ InOutputOrder(merged)

\* C14 witness: a completed run whose generation table holds two plants of
\* one resolved date before rows without a resolved date, whose coal table
\* holds two different resolved dates, and whose merged table has four rows
\* or more.
C14_Witness ==
    /\ run = "complete"
    /\ Len(gen_result_df) >= 4
    /\ ResolvedDate(gen_result_df[1]) # None
    /\ ResolvedDate(gen_result_df[1]) = ResolvedDate(gen_result_df[2])
    /\ gen_result_df[1].Plant # gen_result_df[2].Plant
    /\ ResolvedDate(gen_result_df[Len(gen_result_df)]) = None
    /\ \E i \in 1..Len(coal_result_df) : \E j \in 1..Len(coal_result_df) :
          /\ ResolvedDate(coal_result_df[i]) # None
          /\ ResolvedDate(coal_result_df[j]) # None
          /\ ResolvedDate(coal_result_df[i]) # ResolvedDate(coal_result_df[j])
    /\ Len(merged) >= 4

\* the upper-cased name of column k of c_columns contains the word
HasWord(k, word) == Contains(Upper(c_columns[k]), word)

\* columns of the first kind: TODAY and ACTUAL, neither APRIL nor TILL
FirstKind ==
    {k \in 1..Len(c_columns) :
        /\ HasWord(k, <<"T", "O", "D", "A", "Y">>) /\ HasWord(k, <<"A", "C", "T", "U", "A", "L">>)
        /\ ~HasWord(k, <<"A", "P", "R", "I", "L">>) /\ ~HasWord(k, <<"T", "I", "L", "L">>)}

\* columns of the second kind: ACTUAL, or both DAILY and GEN
SecondKind ==
    {k \in 1..Len(c_columns) :
        \/ HasWord(k, <<"A", "C", "T", "U", "A", "L">>)
        \/ HasWord(k, <<"D", "A", "I", "L", "Y">>) /\ HasWord(k, <<"G", "E", "N">>)}

\* C15: detect_generation_col returns the first column of the first kind; if
\* there is none, the first column of the second kind; if there is none, no
\* column.  A column of the first kind is returned even when a column of the
\* second kind precedes it.
C15_GenerationColumn ==
    c_done =>
        c_result = IF FirstKind # {} THEN SetMin(FirstKind)
                   ELSE IF SecondKind # {} THEN SetMin(SecondKind)
                   ELSE 0

\* C15 witness: the function ran on a list in which a column of the second
\* kind only stands before the first column of the first kind.
C15_Witness ==
    /\ c_done
    /\ FirstKind # {}
    /\ \E j \in SecondKind \ FirstKind : j < SetMin(FirstKind)

\* C16: during a run the step counter increases by one per iteration and
\* never exceeds the total computed up front (which stays as computed); the
\* value shown never decreases, lies in 0..100 and is 100 when the run is
\* complete, whatever the numbers of selected plants and uploaded files.
C16_Progress ==
    /\ [](/\ step_count <= total_steps
          /\ progress_bar \in 0..100
          /\ run = "complete" => progress_bar = 100)
    /\ [][/\ step_count' = step_count + (IF position' = position + 1 \/ run' = "error"
                                          THEN 1 ELSE 0)
          /\ run # "idle" => total_steps' = total_steps
          /\ progress_bar' >= progress_bar]_vars

\* C16 witness: a run is complete in which a stream with plants selected had
\* no file (the total counts its plants, the counter does not), the other
\* stream ran more than one iteration, and the bar stood below 100 before the
\* finish.
C16_Witness ==
    /\ run = "complete"
    /\ generation_files = {}
    /\ selected_gen_plants # {}
    /\ step_count > 1
    /\ step_count < total_steps

\* the effective plant list of a selection
EffectivePlants(sel) == Range(InterpretAll(sel))

\* the state and region of a row are the registry entry of its plant
FromRegistry(r) ==
    /\ r.Plant \in DOMAIN plant_info
    /\ <<r.State, r.Region>> = plant_info[r.Plant]
    /\ r.State # "Unknown" /\ r.Region # "Unknown"

\* C17: after any sequence of upload and multiselect changes, each effective
\* plant list is a subset of the registry keys without the "All" sentinel,
\* and is the full registry whenever "All" is among the selected options;
\* the state and region of every record of a completed run, and of every row
\* presented, are the registry entry of its plant and never "Unknown".
C17_PlantSelection ==
    /\ \A sel \in {selected_gen_plants, selected_coal_plants} :
          /\ EffectivePlants(sel) \subseteq DOMAIN plant_info
          /\ All \notin EffectivePlants(sel)
          /\ All \in sel => EffectivePlants(sel) = DOMAIN plant_info
    /\ run = "complete" =>
          /\ \A i \in 1..Len(gen_data) : FromRegistry(gen_data[i])
          /\ \A i \in 1..Len(coal_data) : FromRegistry(coal_data[i])
          /\ \A i \in 1..Len(gen_result_df) : FromRegistry(gen_result_df[i])
          /\ \A i \in 1..Len(coal_result_df) : FromRegistry(coal_result_df[i])
          /\ \A i \in 1..Len(exported) : FromRegistry(exported[i])

\* C17 witness: a completed run with rows in both tables, after "All" was
\* picked again for the generation plants (the selection then holds every
\* option) and one plant alone was picked for coal.
C17_Witness ==
    /\ run = "complete"
    /\ selected_gen_plants = Menu
    /\ Cardinality(selected_coal_plants) = 1
    /\ All \notin selected_coal_plants
    /\ gen_result_df # <<>>
    /\ coal_result_df # <<>>

\* the comparison key of every label and target of SpecMatch, and the ratio
\* of every target against every label
KeyOf == [l \in MatchLabels \cup MatchTargets |-> normalize_name(l)]
RatioOf == [t \in MatchTargets, l \in MatchLabels |-> ratio(KeyOf[t], KeyOf[l])]

\* rows (1-based) whose label normalizes to exactly the normalized target
ExactRows == {i \in 1..Len(m_series) : KeyOf[m_series[i]] = KeyOf[m_target]}

\* rows whose non-empty normalized label contains the normalized target or
\* is contained in it
SubstringRows ==
    {i \in 1..Len(m_series) :
        /\ KeyOf[m_series[i]] # <<>>
        /\ \/ Contains(KeyOf[m_series[i]], KeyOf[m_target])
           \/ Contains(KeyOf[m_target], KeyOf[m_series[i]])}

\* rows with a non-empty normalized label, and the ratio of each
NonEmptyRows == {i \in 1..Len(m_series) : KeyOf[m_series[i]] # <<>>}
RowRatio(i) == RatioOf[m_target, m_series[i]]

\* the rows of the highest ratio
BestRows ==
    {i \in NonEmptyRows : \A j \in NonEmptyRows : RatioGE(RowRatio(i), RowRatio(j))}

\* C4: whenever a row label normalizes to exactly the normalized target, the
\* matcher returns the lowest-index such row.
C4_ExactPrecedence ==
    (m_done /\ ExactRows # {}) => m_result = SetMin(ExactRows) - 1

\* C4 witness: the matcher ran on a series whose exact row comes after a row
\* that qualifies by the substring rule.
C4_Witness ==
    /\ m_done
    /\ ExactRows # {}
    /\ SetMin(SubstringRows) < SetMin(ExactRows)

\* C5: with no exact row and at least one substring row, the matcher returns
\* the lowest-index substring row, whatever the ratios of the other rows.
C5_SubstringPrecedence ==
    (m_done /\ ExactRows = {} /\ SubstringRows # {})
        => m_result = SetMin(SubstringRows) - 1

\* C5 witness: the matcher ran on a series with no exact row whose first
\* substring row has a lower ratio than another row.
C5_Witness ==
    /\ m_done
    /\ ExactRows = {}
    /\ SubstringRows # {}
    /\ \E j \in NonEmptyRows : RatioGT(RowRatio(j), RowRatio(SetMin(SubstringRows)))

\* C6: with no exact and no substring row, the matcher returns the lowest
\* index among the rows of the highest ratio if and only if that ratio is at
\* least 0.55, and no match otherwise (also for an empty series).
C6_FuzzyTier ==
    (m_done /\ ExactRows = {} /\ SubstringRows = {})
        => m_result = IF BestRows # {} /\ RatioGE(RowRatio(SetMin(BestRows)), <<55, 100>>)
                      THEN SetMin(BestRows) - 1
                      ELSE NoMatch

\* C6 witness: the matcher ran on a series with no exact or substring row,
\* whose best ratio is exactly 0.55, shared by two rows, and matched.
C6_Witness ==
    /\ m_done /\ m_result # NoMatch
    /\ ExactRows = {} /\ SubstringRows = {}
    /\ Cardinality(BestRows) = 2
    /\ RowRatio(SetMin(BestRows)) = <<22, 40>>

\* C7: normalize_name is idempotent: normalizing a comparison key again
\* leaves it unchanged.
C7_Idempotent == n_out # Unset => n_twice = n_out

\* C8: normalize_name is case-insensitive: two texts that differ only in
\* letter case produce the same comparison key.
C8_CaseInsensitive == n_out # Unset => n_alt_out = n_out

\* the texts among which the extractor looks for a date: the joined and the
\* single candidate cells of either file kind, and the display name
SearchedTexts(file) ==
    {SplitExtRoot(file.name)}
        \cup {StrOfCell(TopColumnA(file)[i]) : i \in 1..Len(TopColumnA(file))}
        \cup {JoinWithSpace(SelectSeq(CandidateCells(TopColumnA(file), row), LAMBDA x : x # NaN)) :
                row \in {1, 2}}

\* no date pattern and no "DAY <n>" token anywhere
NoDateSignal(file) ==
    \A t \in SearchedTexts(file) :
        /\ \A k \in 1..4 : PatternSearch(k, t) = <<>>
        /\ DaySearch(t) = None

\* the positions of the display name where a number of one or two digits
\* stands between non-digit characters (or the ends of the name)
DelimitedNumbers(fname) ==
    {i \in 1..Len(fname) :
        ~IsDigit(CharAt(fname, i - 1)) /\ DigitRun(fname, i) \in {1, 2}}

FirstDelimitedNumber(fname) ==
    LET i == SetMin(DelimitedNumbers(fname))
    IN  NumberOf(SubSeq(fname, i, i + DigitRun(fname, i) - 1))

FallbackDate(day) ==
    IF ValidDate(d_year, month_map_get(d_month), day)
    THEN DateOf(d_year, month_map_get(d_month), day)
    ELSE None

\* C9: for a readable file without any date pattern or DAY token, whose
\* display name holds a number of one or two digits between non-digit
\* characters, both extractors return date(fallback_year, fallback_month,
\* number), or nothing when that is no calendar date.
C9_FilenameFallback ==
    (/\ d_gen # Unset
     /\ d_file.readable
     /\ NoDateSignal(d_file)
     /\ DelimitedNumbers(SplitExtRoot(d_file.name)) # {})
        => /\ d_gen = FallbackDate(FirstDelimitedNumber(SplitExtRoot(d_file.name)))
           /\ d_coal = FallbackDate(FirstDelimitedNumber(SplitExtRoot(d_file.name)))

\* the "DAY <n>" numbers written in a candidate cell of the file kind (0 for
\* generation, 1 for coal; the privileged row index is kind + 1) or in the
\* display name
DayTokens(file, kind) ==
    {DaySearch(t) :
        t \in {SplitExtRoot(file.name)}
                 \cup {StrOfCell(c) : c \in Range(CandidateCells(TopColumnA(file), kind + 1))}}
        \ {None}

\* neither the joined candidate cells nor a single candidate cell yields a date
NoCellDate(file, kind) ==
    LET cells == CandidateCells(TopColumnA(file), kind + 1)
    IN  /\ ~IsDate(parse_date_string_to_date(JoinWithSpace(SelectSeq(cells, LAMBDA x : x # NaN))))
        /\ \A i \in 1..Len(cells) : ~IsDate(parse_date_string_to_date(StrOfCell(cells[i])))

\* C11: the steps are tried in the listed order: when no candidate cell
\* yields a date and a "DAY <n>" token stands in a candidate cell or in the
\* display name, the extractor returns the day number n of such a token, also
\* when the display name holds a date pattern that parses.
C11_StepOrder ==
    (d_gen # Unset /\ d_file.readable)
        => /\ (NoCellDate(d_file, 0) /\ DayTokens(d_file, 0) # {}) => d_gen \in DayTokens(d_file, 0)
           /\ (NoCellDate(d_file, 1) /\ DayTokens(d_file, 1) # {}) => d_coal \in DayTokens(d_file, 1)

\* C10: a text that writes one valid date in one of the four listed forms is
\* parsed to exactly that date.
C10_DatePatternCoverage ==
    (d_parsed # Unset /\ d_form \in ListedForms)
        => d_parsed = DateOf(d_date[1], d_date[2], d_date[3])

====
